---- MODULE Spec2Model ----
(***************************************************************************)
(* Voice Notes: the note & section store (client/hooks/useNotes.tsx,       *)
(* useCustomSections.tsx), the reminder scheduler (useNotifications.tsx),  *)
(* the settings store, the recording and query modals that drive them and  *)
(* the /api/query handler of server/routes.ts.                             *)
(*                                                                         *)
(* Time is Date.now(): integer milliseconds.  An awaited call is a step    *)
(* boundary: the code before an await and the code after it are separate   *)
(* actions.  A React state updater (setNotes(prev => ...)) is applied in   *)
(* call order, so the handler that queues it is one action.                *)
(***************************************************************************)
EXTENDS Integers, Sequences, FiniteSets, TLC

(* ------------------------------ bounds -------------------------------- *)
\* the last millisecond the clock reaches
MaxClock == 2
\* store mutations (addNote, toggleComplete, deleteNote) in one run
MaxOps == 3
\* notification handles the platform hands out
MaxHandles == 2
\* notes in the list a /api/query request carries, and ids in a reply
MaxQueryNotes == 2
\* taps on the reminder settings in one run
MaxTaps == 2
\* cards swiped (completed or deleted) while reminders are being scheduled
MaxSwipes == 1
\* notes in the list an understanding reply to /api/transcribe carries
MaxReplyNotes == 2
\* AsyncStorage writes that fail in one run
MaxSaveErrors == 1
\* presses of the mic button of the main feed in one run
MaxPresses == 3

(* --------------------------- JSON values ------------------------------ *)
\* A JavaScript/JSON value, tagged by its type.  JUndef is a missing
\* property (undefined).
JUndef == [k |-> "undefined"]
JNull == [k |-> "null"]
JStr(s) == [k |-> "string", s |-> s]
JNum(n) == [k |-> "number", n |-> n]
JArr(a) == [k |-> "array", a |-> a]
\* a string kept as its sequence of characters, where the code slices it
JText(cs) == [k |-> "text", cs |-> cs]

\* JavaScript truthiness, as the || and if() of the code use it
Truthy(v) ==
  CASE v.k = "undefined" -> FALSE
    [] v.k = "null" -> FALSE
    [] v.k = "string" -> v.s # ""
    [] v.k = "text" -> v.cs # <<>>
    [] v.k = "number" -> v.n # 0
    [] OTHER -> TRUE

\* a || b
OrElse(a, b) == IF Truthy(a) THEN a ELSE b

(* --------------------- numbers, dates and strings --------------------- *)
MsPerMinute == 60000
MsPerHour == 3600000
MsPerDay == 86400000
\* rawText.slice(0, 50): the length a title is cut to
TitleLimit == 50

Digit(d) ==
  CASE d = 0 -> "0" [] d = 1 -> "1" [] d = 2 -> "2" [] d = 3 -> "3"
    [] d = 4 -> "4" [] d = 5 -> "5" [] d = 6 -> "6" [] d = 7 -> "7"
    [] d = 8 -> "8" [] OTHER -> "9"

RECURSIVE NumberToString(_)
\* Number.prototype.toString() of a non-negative integer: its decimal digits
NumberToString(n) ==
  IF n < 10 THEN <<Digit(n)>> ELSE Append(NumberToString(n \div 10), Digit(n % 10))

\* Date.prototype.toISOString(): the UTC calendar day and the time of day
ToISOString(t) == [k |-> "iso", date |-> t \div MsPerDay, time |-> t % MsPerDay]

\* new Date(isoString).getTime()
DateGetTime(iso) == iso.date * MsPerDay + iso.time

(* ------------------------------ state --------------------------------- *)
VARIABLES
  clock,        \* Date.now()
  notes,        \* NotesProvider's notes state
  notesBlob,    \* AsyncStorage["@voice_notes"]: JNull or the stored array
  notesWrites,  \* setItem calls of saveNotes still in flight, oldest first
  loadBuf,      \* loadNotes between its getItem and its setNotes
  recQueue,     \* RecordingModal.stopRecording: parsed notes still to add
  nOps,         \* store mutations so far (bounds the run)
  hist,         \* what the last store operations were (for the claims)
  qNotes,       \* /api/query: JSON.parse(req.body.notes)
  qReply,       \* /api/query: response.choices[0].message.content
  qResp,        \* /api/query: what the handler sent, JUndef before it has
  settings,     \* SettingsProvider's settings state
  settingsBlob, \* AsyncStorage["@voice_notes_settings"]
  nTaps,        \* settings taps so far (bounds the run)
  tNote,        \* the note calculateTriggerDate is called with
  tNow,         \* new Date() at that call
  tSettings,    \* the settings at that call
  tResult,      \* what the call returned, JUndef before it has
  notifBlob,    \* AsyncStorage["@voice_notes_notification_ids"]
  scheduled,    \* the platform's outstanding scheduled notifications
  nextHandle,   \* handles the platform has handed out
  procs,        \* the scheduleNoteReminder / cancelNoteReminder calls in progress
  apiKey,       \* server: process.env.OPENAI_API_KEY is set
  openai,       \* server: the lazily created client exists (openai !== null)
  qFile,        \* /api/query: the request carries an audio file (req.file)
  xFile,        \* /api/transcribe: the request carries an audio file
  xSections,    \* /api/transcribe: JSON.parse(req.body.customSections)
  xText,        \* /api/transcribe: transcription.text, Thrown when that call fails
  xReply,       \* /api/transcribe: understanding.choices[0].message.content
  xResp,        \* /api/transcribe: what the handler sent, JUndef before it has
  sections,     \* CustomSectionsProvider's sections state
  sectionsBlob, \* AsyncStorage["@voice_notes_sections"]
  sectionsWrites, \* setItem calls of saveSections still in flight
  voice,        \* the voice interaction (stopRecording) in progress
  vQueue,       \* QueryModal.stopRecording: matched notes still to act on
  saveErrors,   \* setItem failures caught and logged by saveNotes / saveSections
  rejections,   \* store mutation promises that rejected
  uploads,      \* server: the audio files in the uploads directory
  feed,         \* MainFeedScreen: isRecording, isProcessing and the runs in progress
  sweep         \* SettingsScreen: the section deletion in progress

storeVars == <<clock, notes, notesBlob, notesWrites, loadBuf, recQueue, nOps, hist>>
queryVars == <<qNotes, qReply, qResp, qFile>>
settingsVars == <<settings, settingsBlob, nTaps>>
triggerVars == <<tNote, tNow, tSettings, tResult>>
reminderVars == <<notifBlob, scheduled, nextHandle, procs>>
serverVars == <<apiKey, openai, uploads>>
transcribeVars == <<xFile, xSections, xText, xReply, xResp>>
sectionVars == <<sections, sectionsBlob, sectionsWrites>>
voiceVars == <<voice, vQueue>>
errVars == <<saveErrors, rejections>>
screenVars == <<feed, sweep>>
vars == <<storeVars, queryVars, settingsVars, triggerVars, reminderVars, serverVars,
          transcribeVars, sectionVars, voiceVars, errVars, screenVars>>

(* ------------------------- the notes store ---------------------------- *)
\* the properties of a note or draft that may be undefined
OptionalFields == {"rawText", "title", "category", "dueDate", "entities", "tags"}

\* obj.f, undefined when the object has no such property
Prop(obj, f) == IF f \in DOMAIN obj THEN obj[f] ELSE JUndef

\* JSON.parse(JSON.stringify(obj)): a property whose value is undefined is
\* not written, every other property is written as it is
JsonRoundTrip(obj) ==
  [f \in {g \in DOMAIN obj : ~(g \in OptionalFields /\ obj[g] = JUndef)} |-> obj[f]]

\* JSON.stringify(array) as AsyncStorage keeps it
JsonStringify(arr) == [k |-> "array", a |-> [i \in 1..Len(arr) |-> JsonRoundTrip(arr[i])]]

RECURSIVE InsertByCreatedAt(_, _)
\* one step of the stable sort of loadNotes: n goes behind every note that is
\* not older than it (comparator b.createdAt - a.createdAt)
InsertByCreatedAt(sorted, n) ==
  IF sorted = <<>> THEN <<n>>
  ELSE IF DateGetTime(Head(sorted).createdAt) >= DateGetTime(n.createdAt)
       THEN <<Head(sorted)>> \o InsertByCreatedAt(Tail(sorted), n)
       ELSE <<n>> \o sorted

RECURSIVE SortByCreatedAtDesc(_)
\* parsed.sort((a, b) => new Date(b.createdAt) - new Date(a.createdAt))
SortByCreatedAtDesc(arr) ==
  IF arr = <<>> THEN <<>>
  ELSE InsertByCreatedAt(SortByCreatedAtDesc(SubSeq(arr, 1, Len(arr) - 1)), arr[Len(arr)])

\* the Note addNote builds from its input at Date.now() = idNow, new Date() = createdNow
NewNote(input, idNow, createdNow) ==
  [id |-> NumberToString(idNow),
   rawText |-> Prop(input, "rawText"),
   title |-> Prop(input, "title"),
   category |-> OrElse(Prop(input, "category"), JStr("other")),
   dueDate |-> Prop(input, "dueDate"),
   entities |-> Prop(input, "entities"),
   completed |-> FALSE,
   createdAt |-> ToISOString(createdNow)]

\* a toggleComplete that sets the flag instead of flipping it
ToggleCompleted_SetTrue(prev, id) ==
  [i \in 1..Len(prev) |->
     IF prev[i].id = id THEN [prev[i] EXCEPT !.completed = TRUE] ELSE prev[i]]

\* prev.map(note => note.id === id ? {...note, completed: !note.completed} : note)
ToggleCompleted(prev, id) ==
  [i \in 1..Len(prev) |->
     IF prev[i].id = id THEN [prev[i] EXCEPT !.completed = ~prev[i].completed] ELSE prev[i]]

\* prev.filter(note => note.id !== id)
WithoutNote(prev, id) == SelectSeq(prev, LAMBDA n : n.id # id)

\* saveNotes(updated): the setItem call is issued; it lands later
SaveNotes(updated) == notesWrites' = Append(notesWrites, JsonStringify(updated))

NoHist == [op |-> "none"]

(* ------------------------------ inputs -------------------------------- *)
\* drafts as /api/transcribe returns them: a tagged task with a due date,
\* and a draft for which the service gave only the texts
Drafts ==
  { [rawText |-> JStr("call mom"), title |-> JStr("Call mom"), category |-> JStr("today"),
     dueDate |-> ToISOString(MsPerHour), entities |-> JArr(<<"mom">>), tags |-> JArr(<<"Work">>)],
    [rawText |-> JStr("hm"), title |-> JStr("hm"), category |-> JStr("idea"),
     dueDate |-> JNull] }

\* result.notes of one transcription: one draft or several
TranscribeResults ==
  {<<d>> : d \in Drafts} \cup {<<d, d>> : d \in Drafts}

\* the ids a caller may name: those in the collection and one that is not
IdsOf(coll) == {coll[i].id : i \in 1..Len(coll)}
UnknownId == <<"x">>

(* ------------------------------ actions ------------------------------- *)
\* what an operation of the notes store leaves alone
OutsideStore ==
  <<queryVars, settingsVars, triggerVars, reminderVars, serverVars, transcribeVars,
    sectionVars, errVars, screenVars>>

\* what the server, the settings screen and the reminder calls leave alone
ClientVars == <<sectionVars, voiceVars, errVars, screenVars>>

\* the providers as mounted on a fresh install: nothing in memory or stored
InitStore ==
  /\ clock = 0
  /\ notes = <<>>
  /\ notesBlob = JNull
  /\ notesWrites = <<>>
  /\ loadBuf = JUndef
  /\ recQueue = <<>>
  /\ nOps = 0
  /\ hist = NoHist

\* no /api/query request yet
QueryIdle ==
  /\ qNotes = <<>>
  /\ qReply = JUndef
  /\ qResp = JUndef
  /\ qFile = FALSE

\* CustomSectionsProvider as mounted on a fresh install, no modal open
NoVoice == [kind |-> "none", phase |-> "idle"]

\* MainFeedScreen as mounted: not recording, not processing, no startRecording
\* or stopRecording run in progress, the mic not pressed yet
FeedIdle ==
  [isRecording |-> FALSE, isProcessing |-> FALSE, starting |-> 0, stopping |-> 0,
   processing |-> 0, recordings |-> 0, added |-> 0, presses |-> 0]

\* SettingsScreen: no section is being deleted
NoSweep == [phase |-> "idle"]

InitClient ==
  /\ sections = <<>>
  /\ sectionsBlob = JNull
  /\ sectionsWrites = <<>>
  /\ voice = NoVoice
  /\ vQueue = <<>>
  /\ saveErrors = 0
  /\ rejections = 0
  /\ feed = FeedIdle
  /\ sweep = NoSweep

\* the server as started with its key, before any request created the client
\* and with no upload in its directory
ServerIdle ==
  /\ apiKey = TRUE
  /\ openai = FALSE
  /\ uploads = {}

\* no /api/transcribe request yet; on the client no section, no voice
\* interaction and no storage failure yet
TranscribeIdle ==
  /\ xFile = FALSE
  /\ xSections = <<>>
  /\ xText = JText(<<>>)
  /\ xReply = JUndef
  /\ xResp = JUndef
  /\ InitClient

\* DEFAULT_SETTINGS (the reminder fields), nothing stored yet
DefaultSettings ==
  [todayReminderHour |-> 18, tomorrowReminderHour |-> 9, reminderLeadMinutes |-> 15]

InitSettings ==
  /\ settings = DefaultSettings
  /\ settingsBlob = JNull
  /\ nTaps = 0

\* calculateTriggerDate has not been called
TriggerIdle ==
  /\ tNote = JUndef
  /\ tNow = 0
  /\ tSettings = DefaultSettings
  /\ tResult = JUndef

\* the call slots: two calls can be in progress at once
Callers == {"first", "second"}

\* a call takes the second slot only while the first is taken
SlotFree(p) ==
  /\ procs[p].pc = "idle"
  /\ p = "second" => procs["first"].pc # "idle"

\* a call slot with no call in it
IdleCall == [pc |-> "idle", noteId |-> <<>>, map |-> <<>>]

\* no reminder was ever scheduled
InitReminders ==
  /\ notifBlob = JNull
  /\ scheduled = {}
  /\ nextHandle = 0
  /\ procs = [p \in Callers |-> IdleCall]

Init ==
  /\ InitStore
  /\ QueryIdle
  /\ InitSettings
  /\ TriggerIdle
  /\ InitReminders
  /\ ServerIdle
  /\ TranscribeIdle

\* a millisecond passes
Tick ==
  /\ UNCHANGED <<OutsideStore, voiceVars>>
  /\ clock < MaxClock
  /\ clock' = clock + 1
  /\ UNCHANGED <<notes, notesBlob, notesWrites, loadBuf, recQueue, nOps, hist>>

\* an addNote that puts the new note behind the others
AddNote_Append(input) ==
  /\ nOps < MaxOps
  /\ nOps' = nOps + 1
  /\ LET newNote == NewNote(input, clock, clock)
         updated == Append(notes, newNote)
     IN /\ notes' = updated
        /\ SaveNotes(updated)
        /\ hist' = [op |-> "add", id |-> newNote.id, draft |-> input, stage |-> "added"]
  /\ UNCHANGED clock

\* addNote(input): the id is Date.now() and createdAt is new Date(), both read
\* in the same synchronous run
AddNote(input) ==
  /\ nOps < MaxOps
  /\ nOps' = nOps + 1
  /\ LET newNote == NewNote(input, clock, clock)
         updated == <<newNote>> \o notes
     IN /\ notes' = updated
        /\ SaveNotes(updated)
        /\ hist' = [op |-> "add", id |-> newNote.id, draft |-> input, stage |-> "added"]
  /\ UNCHANGED clock

\* RecordingModal.stopRecording: transcribeAndProcess has returned result.notes
RecordingResult ==
  /\ UNCHANGED <<OutsideStore, voiceVars>>
  /\ recQueue = <<>>
  /\ \E result \in TranscribeResults :
       /\ nOps + Len(result) <= MaxOps
       /\ recQueue' = result
  /\ UNCHANGED <<clock, notes, notesBlob, notesWrites, loadBuf, nOps, hist>>

\* RecordingModal.stopRecording: one round of "for (const note of result.notes)
\* await addNote({...})"
RecordingAddNote ==
  /\ UNCHANGED <<OutsideStore, voiceVars>>
  /\ recQueue # <<>>
  /\ AddNote(Head(recQueue))
  /\ recQueue' = Tail(recQueue)
  /\ UNCHANGED <<notesBlob, loadBuf>>

\* toggleComplete(id)
ToggleCompleteOf(id) ==
  /\ UNCHANGED OutsideStore
  /\ nOps < MaxOps
  /\ nOps' = nOps + 1
  /\ LET updated == ToggleCompleted(notes, id)
     IN /\ notes' = updated
        /\ SaveNotes(updated)
        /\ hist' = IF hist.op = "toggle" /\ hist.id = id /\ hist.n = 1
                   THEN [hist EXCEPT !.n = 2]
                   ELSE [op |-> "toggle", id |-> id, n |-> 1, before |-> notes]
  /\ UNCHANGED <<clock, notesBlob, loadBuf, recQueue>>

\* a caller toggles a note of the collection or an id that is not in it
ToggleComplete ==
  /\ \E id \in IdsOf(notes) \cup {UnknownId} : ToggleCompleteOf(id)
  /\ UNCHANGED voiceVars

\* deleteNote(id)
DeleteNoteOf(id) ==
  /\ UNCHANGED OutsideStore
  /\ nOps < MaxOps
  /\ nOps' = nOps + 1
  /\ LET updated == WithoutNote(notes, id)
     IN /\ notes' = updated
        /\ SaveNotes(updated)
        /\ hist' = [op |-> "delete", id |-> id]
  /\ UNCHANGED <<clock, notesBlob, loadBuf, recQueue>>

\* a caller deletes a note of the collection or an id that is not in it
DeleteNote ==
  /\ \E id \in IdsOf(notes) \cup {UnknownId} : DeleteNoteOf(id)
  /\ UNCHANGED voiceVars

\* AsyncStorage completes the oldest setItem
StorageWriteLands ==
  /\ UNCHANGED <<OutsideStore, voiceVars>>
  /\ notesWrites # <<>>
  /\ notesBlob' = Head(notesWrites)
  /\ notesWrites' = Tail(notesWrites)
  /\ UNCHANGED <<clock, notes, loadBuf, recQueue, nOps, hist>>

\* loadNotes up to its await: AsyncStorage.getItem(STORAGE_KEY)
LoadNotesRead ==
  /\ UNCHANGED <<OutsideStore, voiceVars>>
  /\ loadBuf = JUndef
  /\ loadBuf' = notesBlob
  /\ hist' = IF hist.op = "add" /\ notesWrites = <<>>
             THEN [hist EXCEPT !.stage = "read"]
             ELSE IF hist.op = "add" THEN hist ELSE NoHist
  /\ UNCHANGED <<clock, notes, notesBlob, notesWrites, recQueue, nOps>>

\* loadNotes after its await: if (stored) setNotes(sorted parsed)
LoadNotesApply ==
  /\ UNCHANGED <<OutsideStore, voiceVars>>
  /\ loadBuf # JUndef
  /\ notes' = IF loadBuf = JNull THEN notes ELSE SortByCreatedAtDesc(loadBuf.a)
  /\ loadBuf' = JUndef
  /\ hist' = IF hist.op = "add" /\ hist.stage = "read"
             THEN [hist EXCEPT !.stage = "reloaded"]
             ELSE IF hist.op = "add" THEN hist ELSE NoHist
  /\ UNCHANGED <<clock, notesBlob, notesWrites, recQueue, nOps>>

Next ==
  \/ Tick
  \/ RecordingResult
  \/ RecordingAddNote
  \/ ToggleComplete
  \/ DeleteNote
  \/ StorageWriteLands
  \/ LoadNotesRead
  \/ LoadNotesApply

Spec == Init /\ [][Next]_vars

\* the note a previous session left in the storage, created at time 0
StoredNote == NewNote([rawText |-> JStr("old"), title |-> JStr("Old"), category |-> JStr("idea")], 0, 0)

\* the app starts on a device whose storage holds one note: NotesProvider
\* mounts with an empty collection and its effect is about to call loadNotes
InitLoad ==
  /\ clock = 1
  /\ notes = <<>>
  /\ notesBlob = JsonStringify(<<StoredNote>>)
  /\ notesWrites = <<>>
  /\ loadBuf = JUndef
  /\ recQueue = <<>>
  /\ nOps = 0
  /\ hist = NoHist
  /\ QueryIdle
  /\ InitSettings
  /\ TriggerIdle
  /\ InitReminders
  /\ ServerIdle
  /\ TranscribeIdle

\* loadNotes (the initial load and every refreshNotes) and the adds of
\* recorded notes, in any interleaving at their awaits
NextLoad ==
  \/ Tick
  \/ RecordingResult
  \/ RecordingAddNote
  \/ StorageWriteLands
  \/ LoadNotesRead
  \/ LoadNotesApply

SpecLoad == InitLoad /\ [][NextLoad]_vars

(* --------------------- /api/query (server/routes.ts) ------------------ *)
\* all sequences over S of length at most n
RECURSIVE SeqsUpTo(_, _)
SeqsUpTo(S, n) ==
  IF n = 0 THEN {<<>>}
  ELSE LET shorter == SeqsUpTo(S, n - 1)
       IN shorter \cup {Append(q, x) : q \in {r \in shorter : Len(r) = n - 1}, x \in S}

\* the notes a client may hold and send: added at clock 0 or 1 from either
\* draft, written by JSON.stringify(notes) and read by JSON.parse(req.body.notes)
QueryNotePool ==
  {JsonRoundTrip(NewNote(d, t, t)) : d \in Drafts, t \in 0..1}

QueryNoteLists == SeqsUpTo(QueryNotePool, MaxQueryNotes)

\* what the understanding service may put in matchedNoteIds: ids of the pool,
\* an id of no note, and an id written as a number
ReplyIdPool == {JStr(NumberToString(0)), JStr(NumberToString(1)), JStr(NumberToString(7)), JNum(1)}

\* a parsed JSON object with these properties (a missing property is undefined)
JObj(fields) == [k |-> "object", o |-> fields]

\* parsed.f
Member(parsed, f) == IF parsed.k = "object" THEN Prop(parsed.o, f) ELSE JUndef

\* the message contents of the understanding reply: none, text that is not
\* JSON, the JSON literal null, and objects with or without each field
ReplyObjects ==
  { [f \in dom |-> IF f = "response" THEN r ELSE IF f = "matchedNoteIds" THEN m ELSE a] :
      dom \in SUBSET {"response", "matchedNoteIds", "action"},
      r \in {JStr(""), JStr("Done.")},
      m \in {JArr(ids) : ids \in SeqsUpTo(ReplyIdPool, MaxQueryNotes)} \cup {JNull, JNum(3)},
      a \in {JNull, JStr("complete")} }

QueryReplies ==
  {[t |-> "empty"], [t |-> "text"], [t |-> "json", v |-> JNull]}
    \cup {[t |-> "json", v |-> JObj(o)] : o \in ReplyObjects}

Thrown == [k |-> "throw"]

\* JSON.parse(content || "{}"): throws a SyntaxError on text that is not JSON
ParseReply(content) ==
  CASE content.t = "empty" -> JObj(<<>>)
    [] content.t = "text" -> Thrown
    [] OTHER -> content.v

\* array.includes(id), for the strings of an array of JSON values
Includes(arr, id) == \E i \in 1..Len(arr) : arr[i] = JStr(id)

\* a filter that walks the ids and collects the notes of each
MatchedNotes_PerId(callerNotes, ids) ==
  LET PerId[i \in 0..Len(ids)] ==
        IF i = 0 THEN <<>>
        ELSE PerId[i - 1] \o SelectSeq(callerNotes, LAMBDA n : ids[i] = JStr(n.id))
  IN PerId[Len(ids)]

\* notes.filter(n => ids.includes(n.id))
MatchedNotes(callerNotes, ids) == SelectSeq(callerNotes, LAMBDA n : Includes(ids, n.id))

Fallback == JStr("I couldn't find anything related to that.")

\* The handler from the parse of the reply to the response it sends.  A throw
\* (SyntaxError of JSON.parse, TypeError on parsed.matchedNoteIds of null or on
\* .includes of a number) reaches the catch, which answers 500.
QueryResponse(callerNotes, content) ==
  LET parsed == ParseReply(content)
      ids == OrElse(Member(parsed, "matchedNoteIds"), JArr(<<>>))
  IN IF parsed = Thrown \/ parsed = JNull \/ (ids.k # "array" /\ callerNotes # <<>>)
     THEN [status |-> 500]
     ELSE [status |-> 200,
           response |-> OrElse(Member(parsed, "response"), Fallback),
           matchedNotes |-> IF callerNotes = <<>> THEN <<>> ELSE MatchedNotes(callerNotes, ids.a),
           action |-> OrElse(Member(parsed, "action"), JNull),
           sectionName |-> OrElse(Member(parsed, "sectionName"), JNull),
           sectionIcon |-> OrElse(Member(parsed, "sectionIcon"), JNull),
           sectionKeywords |-> OrElse(Member(parsed, "sectionKeywords"), JArr(<<>>))]

\* the server states a request can meet: the key set or not, the client
\* created by an earlier request or not
ServerStates ==
  /\ apiKey \in BOOLEAN
  /\ openai \in BOOLEAN
  /\ openai => apiKey

\* getOpenAIClient() returns a client (it throws when there is none and no key)
ClientAvailable == openai \/ apiKey

\* a request arrives with the client's notes, with or without an audio file,
\* and the service answers it
InitQuery ==
  /\ InitStore
  /\ qNotes \in QueryNoteLists
  /\ qReply \in QueryReplies
  /\ qResp = JUndef
  /\ qFile \in BOOLEAN
  /\ uploads = IF qFile THEN {"query"} ELSE {}
  /\ InitSettings
  /\ TriggerIdle
  /\ InitReminders
  /\ ServerStates
  /\ TranscribeIdle

\* app.post("/api/query"): get the client (a throw is answered 500 by the
\* catch), reject a request without a file, then parse the reply, filter the
\* notes and answer.  multer has put the upload into the uploads directory;
\* the handler unlinks it before res.json and in its catch, once it has
\* renamed it (queryAudioPath is set)
QueryHandler ==
  /\ qResp = JUndef
  /\ openai' = ClientAvailable
  /\ qResp' = IF ~ClientAvailable THEN [status |-> 500]
              ELSE IF ~qFile THEN [status |-> 400]
              ELSE QueryResponse(qNotes, qReply)
  /\ uploads' = IF ClientAvailable /\ qFile THEN uploads \ {"query"} ELSE uploads
  /\ UNCHANGED <<qNotes, qReply, qFile, apiKey>>
  /\ UNCHANGED <<storeVars, settingsVars, triggerVars, reminderVars, transcribeVars, ClientVars>>

NextQuery == QueryHandler

SpecQuery == InitQuery /\ [][NextQuery]_vars

(* ------------------ /api/transcribe (server/routes.ts) ---------------- *)
\* s.slice(0, n)
Slice(cs, n) == SubSeq(cs, 1, IF Len(cs) < n THEN Len(cs) ELSE n)

\* transcription.text: a short transcript and one longer than the title limit
Transcripts ==
  {<<"b", "u", "y">>, [i \in 1..(TitleLimit + 2) |-> Digit(i % 10)]}

\* req.body.customSections as the client sends it: no section, or one
SuppliedSections == {<<>>, <<[name |-> "Work", keywords |-> <<"office">>]>>}

\* the names of the sections supplied with the request
SectionNames(list) == {list[i].name : i \in 1..Len(list)}

\* a note of the reply: a category of the enumeration or one outside it, a tag
\* naming the supplied section or naming none
ReplyDrafts ==
  {[rawText |-> JText(<<"b", "u", "y">>), title |-> JText(<<"B">>), category |-> JStr(c),
    dueDate |-> JNull, entities |-> JArr(<<>>), tags |-> JArr(t)] :
     c \in {"today", "work"}, t \in {<<>>, <<"Work">>, <<"Bogus">>}}

\* parsed.notes when present: a list of notes, or a value that is no list
ReplyNotesValues ==
  {JArr(l) : l \in SeqsUpTo(ReplyDrafts, MaxReplyNotes)} \cup {JStr("none"), JNull}

\* the reply objects: with or without notes, and with or without the fields
\* of a single note at the top level
TranscribeReplyObjects ==
  { [f \in dom |->
       CASE f = "notes" -> n
         [] f = "title" -> JText(<<"T">>)
         [] f = "category" -> JStr("today")
         [] f = "dueDate" -> ToISOString(MsPerHour)
         [] OTHER -> JArr(<<"Bogus">>)] :
      dom \in SUBSET {"notes", "title", "category", "dueDate", "tags"},
      n \in ReplyNotesValues }

TranscribeReplies ==
  {[t |-> "empty"], [t |-> "text"], [t |-> "json", v |-> JNull]}
    \cup {[t |-> "json", v |-> JObj(o)] : o \in TranscribeReplyObjects}

\* The handler from the parse of the reply to the response it sends.  A throw
\* (SyntaxError of JSON.parse, TypeError on parsed.notes of null) reaches the
\* catch, which answers 500.
TranscribeResponse(rawText, content) ==
  LET parsed == ParseReply(content)
  IN IF parsed = Thrown \/ parsed = JNull
     THEN [status |-> 500]
     ELSE [status |-> 200,
           notes |-> OrElse(Member(parsed, "notes"),
                      JArr(<<[rawText |-> JText(rawText),
                              title |-> OrElse(Member(parsed, "title"),
                                               JText(Slice(rawText, TitleLimit))),
                              category |-> OrElse(Member(parsed, "category"), JStr("other")),
                              dueDate |-> OrElse(Member(parsed, "dueDate"), JNull),
                              entities |-> OrElse(Member(parsed, "entities"), JArr(<<>>)),
                              tags |-> OrElse(Member(parsed, "tags"), JArr(<<>>))]>>))]

\* a request arrives, with or without an audio file; the transcription
\* service returns the text or fails, the understanding service replies
InitTranscribe ==
  /\ InitStore
  /\ QueryIdle
  /\ InitSettings
  /\ TriggerIdle
  /\ InitReminders
  /\ ServerStates
  /\ xFile \in BOOLEAN
  /\ uploads = IF xFile THEN {"transcribe"} ELSE {}
  /\ xSections \in SuppliedSections
  /\ xText \in {JText(t) : t \in Transcripts} \cup {Thrown}
  /\ xReply \in TranscribeReplies
  /\ xResp = JUndef
  /\ InitClient

\* app.post("/api/transcribe"): get the client (a throw is answered 500 by the
\* catch), reject a request without a file, transcribe, ask for the notes,
\* parse the reply and answer.  multer has put the upload into the uploads
\* directory; the handler unlinks it after JSON.parse of the reply and
\* nowhere else
TranscribeHandler ==
  /\ xResp = JUndef
  /\ openai' = ClientAvailable
  /\ xResp' = IF ~ClientAvailable THEN [status |-> 500]
              ELSE IF ~xFile THEN [status |-> 400]
              ELSE IF xText = Thrown THEN [status |-> 500]
              ELSE TranscribeResponse(xText.cs, xReply)
  /\ uploads' = IF ClientAvailable /\ xFile /\ xText # Thrown /\ ParseReply(xReply) # Thrown
                THEN uploads \ {"transcribe"}
                ELSE uploads
  /\ UNCHANGED <<xFile, xSections, xText, xReply, apiKey>>
  /\ UNCHANGED <<storeVars, queryVars, settingsVars, triggerVars, reminderVars, ClientVars>>

NextTranscribe == TranscribeHandler

SpecTranscribe == InitTranscribe /\ [][NextTranscribe]_vars

(* ------------- settings and the reminder trigger time ----------------- *)
\* SettingsScreen: the values a tap cycles through
REMINDER_HOURS == <<6, 7, 8, 9, 10, 11, 12, 13, 14, 15, 16, 17, 18, 19, 20, 21, 22>>
LEAD_MINUTES == <<5, 10, 15, 30, 60>>

\* list.indexOf(x), 0-based, -1 when x is not in the list
IndexOf(list, x) ==
  IF \E i \in 1..Len(list) : list[i] = x
  THEN (CHOOSE i \in 1..Len(list) : list[i] = x /\ \A j \in 1..(i - 1) : list[j] # x) - 1
  ELSE -1

\* list[(list.indexOf(x) + 1) % list.length]
NextInCycle(list, x) == list[((IndexOf(list, x) + 1) % Len(list)) + 1]

\* updateSettings(partial): merge, set and save
UpdateSettings(updated) ==
  /\ nTaps < MaxTaps
  /\ nTaps' = nTaps + 1
  /\ settings' = updated
  /\ settingsBlob' = updated

HandleTodayHourChange ==
  /\ UpdateSettings([settings EXCEPT
       !.todayReminderHour = NextInCycle(REMINDER_HOURS, settings.todayReminderHour)])
  /\ UNCHANGED <<storeVars, queryVars, triggerVars, reminderVars, serverVars, transcribeVars,
               ClientVars>>

HandleTomorrowHourChange ==
  /\ UpdateSettings([settings EXCEPT
       !.tomorrowReminderHour = NextInCycle(REMINDER_HOURS, settings.tomorrowReminderHour)])
  /\ UNCHANGED <<storeVars, queryVars, triggerVars, reminderVars, serverVars, transcribeVars,
               ClientVars>>

HandleLeadTimeChange ==
  /\ UpdateSettings([settings EXCEPT
       !.reminderLeadMinutes = NextInCycle(LEAD_MINUTES, settings.reminderLeadMinutes)])
  /\ UNCHANGED <<storeVars, queryVars, triggerVars, reminderVars, serverVars, transcribeVars,
               ClientVars>>

\* a Date, as calculateTriggerDate returns it
JDate(t) == [k |-> "date", t |-> t]

\* date.setHours(h, 0, 0, 0) of a local date (local time is taken at UTC+0
\* with no daylight saving shift)
SetHours(t, h) == (t - (t % MsPerDay)) + h * MsPerHour

\* date.setDate(date.getDate() + 1)
NextDay(t) == t + MsPerDay

\* a calculateTriggerDate that returns the lead time before the due date
\* without comparing it with now
CalculateTriggerDate_Unchecked(note, now) ==
  IF Truthy(Prop(note, "dueDate"))
  THEN JDate(DateGetTime(note.dueDate) - 15 * MsPerMinute)
  ELSE CASE note.category = JStr("today") ->
              LET sixPM == SetHours(now, 18)
              IN IF now < sixPM THEN JDate(sixPM) ELSE JDate(now + MsPerHour)
         [] note.category = JStr("tomorrow") -> JDate(SetHours(NextDay(now), 9))
         [] note.category = JStr("shopping") -> JDate(SetHours(NextDay(now), 10))
         [] OTHER -> JNull

\* calculateTriggerDate(note) at new Date() = now
CalculateTriggerDate(note, now) ==
  IF Truthy(Prop(note, "dueDate"))
  THEN LET triggerDate == DateGetTime(note.dueDate) - 15 * MsPerMinute
       IN IF triggerDate > now THEN JDate(triggerDate) ELSE JNull
  ELSE CASE note.category = JStr("today") ->
              LET sixPM == SetHours(now, 18)
              IN IF now < sixPM THEN JDate(sixPM) ELSE JDate(now + MsPerHour)
         [] note.category = JStr("tomorrow") -> JDate(SetHours(NextDay(now), 9))
         [] note.category = JStr("shopping") -> JDate(SetHours(NextDay(now), 10))
         [] OTHER -> JNull

\* the instants of day 0 at which a reminder is computed: 17:45, 18:00, 19:00
NowSamples == {17 * MsPerHour + 45 * MsPerMinute, 18 * MsPerHour, 19 * MsPerHour}

\* due dates around them: 19:10, 19:15, 19:40 and 09:00 the next day
DueSamples ==
  {19 * MsPerHour + 10 * MsPerMinute, 19 * MsPerHour + 15 * MsPerMinute,
   19 * MsPerHour + 40 * MsPerMinute, MsPerDay + 9 * MsPerHour}

Categories == {"today", "tomorrow", "idea", "shopping", "other"}

\* notes of every category, with and without a due date
TriggerNotes ==
  {[NewNote([rawText |-> JStr("t"), title |-> JStr("t"), category |-> JStr(c)], 0, 0)
      EXCEPT !.dueDate = d] :
     c \in Categories, d \in {JUndef, JNull} \cup {ToISOString(t) : t \in DueSamples}}

InitTrigger ==
  /\ InitStore
  /\ QueryIdle
  /\ InitSettings
  /\ tNote \in TriggerNotes
  /\ tNow \in NowSamples
  /\ tSettings = DefaultSettings
  /\ tResult = JUndef
  /\ InitReminders
  /\ ServerIdle
  /\ TranscribeIdle

\* scheduleNoteReminder: const triggerDate = calculateTriggerDate(note)
TriggerCompute ==
  /\ tResult = JUndef
  /\ tResult' = CalculateTriggerDate(tNote, tNow)
  /\ tSettings' = settings
  /\ UNCHANGED <<tNote, tNow>>
  /\ UNCHANGED <<storeVars, queryVars, settingsVars, reminderVars, serverVars, transcribeVars,
               ClientVars>>

NextTrigger ==
  \/ HandleTodayHourChange
  \/ HandleTomorrowHourChange
  \/ HandleLeadTimeChange
  \/ TriggerCompute

SpecTrigger == InitTrigger /\ [][NextTrigger]_vars

(***************************************************************************)
(* Reminder scheduling: client/hooks/useNotifications.tsx.  Every await of  *)
(* scheduleNoteReminder and cancelNoteReminder is a step boundary, so calls *)
(* made while another is in progress interleave at those points.            *)
(***************************************************************************)

\* a NotificationIdMap as a function from note ids to handles
JMap(m) == [k |-> "object", o |-> m]

MapSet(m, id, h) == [x \in DOMAIN m \cup {id} |-> IF x = id THEN h ELSE m[x]]

MapDelete(m, id) == [x \in DOMAIN m \ {id} |-> m[x]]

\* getNotificationIdMap: stored ? JSON.parse(stored) : {}
GetNotificationIdMap == IF notifBlob = JNull THEN <<>> ELSE notifBlob.o

\* saveNotificationIdMap(map)
SaveNotificationIdMap(map) == notifBlob' = JMap(map)

\* Notifications.cancelScheduledNotificationAsync(handle)
CancelScheduledNotification(handle) == {n \in scheduled : n.handle # handle}

\* a step of a reminder call about note id is newer than what hist recorded
\* about that note
HistAfterReminderStep(id) ==
  IF hist.op # "none" /\ hist.id = id THEN NoHist ELSE hist

ReminderFrame ==
  UNCHANGED <<clock, notes, notesBlob, notesWrites, loadBuf, recQueue, nOps,
              queryVars, settingsVars, triggerVars, serverVars, transcribeVars,
              ClientVars>>

\* scheduleNoteReminder(note) up to its first await inside the try block:
\* without permission, or with no trigger date, it returns false
SchedStart(p) ==
  /\ ReminderFrame
  /\ SlotFree(p)
  /\ \E i \in 1..Len(notes), permissionGranted \in BOOLEAN :
       IF permissionGranted /\ CalculateTriggerDate(notes[i], clock) # JNull
       THEN procs' = [procs EXCEPT ![p] =
                        [pc |-> "s_read", noteId |-> notes[i].id, map |-> <<>>]]
       ELSE UNCHANGED procs
  /\ UNCHANGED <<notifBlob, scheduled, nextHandle, hist>>

\* const existingMap = await getNotificationIdMap(); with no entry for the
\* note the code goes on to scheduleNotificationAsync without another await
SchedRead(p) ==
  /\ ReminderFrame
  /\ procs[p].pc = "s_read"
  /\ LET existingMap == GetNotificationIdMap
     IN procs' = [procs EXCEPT
                    ![p].pc = IF procs[p].noteId \in DOMAIN existingMap
                              THEN "s_cancel" ELSE "s_schedule",
                    ![p].map = existingMap]
  /\ UNCHANGED <<notifBlob, scheduled, nextHandle, hist>>

\* await cancelScheduledNotificationAsync(existingMap[note.id])
SchedCancelPrior(p) ==
  /\ ReminderFrame
  /\ procs[p].pc = "s_cancel"
  /\ LET id == procs[p].noteId
     IN /\ scheduled' = CancelScheduledNotification(procs[p].map[id])
        /\ hist' = HistAfterReminderStep(id)
  /\ procs' = [procs EXCEPT ![p].pc = "s_schedule"]
  /\ UNCHANGED <<notifBlob, nextHandle>>

\* const notificationId = await scheduleNotificationAsync(...)
SchedSchedule(p) ==
  /\ ReminderFrame
  /\ procs[p].pc = "s_schedule"
  /\ nextHandle < MaxHandles
  /\ nextHandle' = nextHandle + 1
  /\ LET id == procs[p].noteId
         notificationId == nextHandle + 1
     IN /\ scheduled' = scheduled \cup {[handle |-> notificationId, noteId |-> id]}
        /\ procs' = [procs EXCEPT ![p].pc = "s_save",
                                  ![p].map = MapSet(procs[p].map, id, notificationId)]
        /\ hist' = HistAfterReminderStep(id)
  /\ UNCHANGED notifBlob

\* scheduleNotificationAsync rejects: the catch block returns false
SchedRejected(p) ==
  /\ ReminderFrame
  /\ procs[p].pc = "s_schedule"
  /\ procs' = [procs EXCEPT ![p] = IdleCall]
  /\ UNCHANGED <<notifBlob, scheduled, nextHandle, hist>>

\* await saveNotificationIdMap(existingMap); return true
SchedSave(p) ==
  /\ ReminderFrame
  /\ procs[p].pc = "s_save"
  /\ SaveNotificationIdMap(procs[p].map)
  /\ hist' = HistAfterReminderStep(procs[p].noteId)
  /\ procs' = [procs EXCEPT ![p] = IdleCall]
  /\ UNCHANGED <<scheduled, nextHandle>>

\* cancelNoteReminder(noteId): const existingMap = await getNotificationIdMap();
\* with no entry for the note it returns true at once
CancelRead(p) ==
  /\ ReminderFrame
  /\ SlotFree(p)
  /\ \E id \in IdsOf(notes) \cup DOMAIN GetNotificationIdMap :
       IF id \in DOMAIN GetNotificationIdMap
       THEN procs' = [procs EXCEPT ![p] =
                        [pc |-> "c_cancel", noteId |-> id, map |-> GetNotificationIdMap]]
       ELSE UNCHANGED procs
  /\ UNCHANGED <<notifBlob, scheduled, nextHandle, hist>>

\* await cancelScheduledNotificationAsync(notificationId); delete existingMap[noteId]
CancelCancel(p) ==
  /\ ReminderFrame
  /\ procs[p].pc = "c_cancel"
  /\ LET id == procs[p].noteId
     IN /\ scheduled' = CancelScheduledNotification(procs[p].map[id])
        /\ procs' = [procs EXCEPT ![p].pc = "c_save",
                                  ![p].map = MapDelete(procs[p].map, id)]
        /\ hist' = HistAfterReminderStep(id)
  /\ UNCHANGED <<notifBlob, nextHandle>>

\* await saveNotificationIdMap(existingMap); return true
CancelSave(p) ==
  /\ ReminderFrame
  /\ procs[p].pc = "c_save"
  /\ SaveNotificationIdMap(procs[p].map)
  /\ hist' = HistAfterReminderStep(procs[p].noteId)
  /\ procs' = [procs EXCEPT ![p] = IdleCall]
  /\ UNCHANGED <<scheduled, nextHandle>>

\* the notes on screen when reminders are scheduled: two notes added one
\* millisecond apart and already persisted, the older one with a due date
ReminderNoteLists ==
  {<<NewNote(d2, 1, 1), NewNote(d1, 0, 0)>> :
     d1 \in {d \in Drafts : Truthy(Prop(d, "dueDate"))}, d2 \in Drafts}

InitReminder ==
  /\ clock = 1
  /\ notes \in ReminderNoteLists
  /\ notesBlob = JsonStringify(notes)
  /\ notesWrites = <<>>
  /\ loadBuf = JUndef
  /\ recQueue = <<>>
  /\ nOps = 0
  /\ hist = NoHist
  /\ QueryIdle
  /\ InitSettings
  /\ TriggerIdle
  /\ InitReminders
  /\ ServerIdle
  /\ TranscribeIdle

\* swiping a card right: onToggleComplete calls toggleComplete and nothing else
SwipeComplete ==
  /\ nOps < MaxSwipes
  /\ \E i \in 1..Len(notes) : ToggleCompleteOf(notes[i].id)
  /\ UNCHANGED voiceVars

\* swiping a card left: onDelete calls deleteNote and nothing else
SwipeDelete ==
  /\ nOps < MaxSwipes
  /\ \E i \in 1..Len(notes) : DeleteNoteOf(notes[i].id)
  /\ UNCHANGED voiceVars

NextReminder ==
  \/ \E p \in Callers : SchedStart(p)
  \/ \E p \in Callers : SchedRead(p)
  \/ \E p \in Callers : SchedCancelPrior(p)
  \/ \E p \in Callers : SchedSchedule(p)
  \/ \E p \in Callers : SchedRejected(p)
  \/ \E p \in Callers : SchedSave(p)
  \/ \E p \in Callers : CancelRead(p)
  \/ \E p \in Callers : CancelCancel(p)
  \/ \E p \in Callers : CancelSave(p)
  \/ SwipeComplete
  \/ SwipeDelete

SpecReminder == InitReminder /\ [][NextReminder]_vars

\* scheduleNoteReminder(note) run from its call to its return with no other
\* call in progress: the permission is granted or not, the trigger is computed,
\* the prior notification of the note is cancelled, the new one is scheduled
\* (or the platform rejects it and the catch returns false) and the map saved
ScheduleNoteReminder ==
  /\ nextHandle < MaxHandles
  /\ \E permissionGranted \in BOOLEAN, rejected \in BOOLEAN :
       LET triggerDate == IF permissionGranted THEN CalculateTriggerDate(tNote, tNow)
                          ELSE JUndef
           existingMap == GetNotificationIdMap
           kept == IF tNote.id \in DOMAIN existingMap
                   THEN CancelScheduledNotification(existingMap[tNote.id])
                   ELSE scheduled
           notificationId == nextHandle + 1
       IN /\ tResult' = triggerDate
          /\ hist' = [op |-> "schedule", id |-> tNote.id, granted |-> permissionGranted,
                      scheduled |-> scheduled, notifBlob |-> notifBlob]
          /\ IF ~permissionGranted \/ triggerDate = JNull
             THEN UNCHANGED <<notifBlob, scheduled, nextHandle>>
             ELSE IF rejected
             THEN /\ scheduled' = kept
                  /\ UNCHANGED <<notifBlob, nextHandle>>
             ELSE /\ scheduled' = kept \cup {[handle |-> notificationId, noteId |-> tNote.id,
                                               date |-> triggerDate.t]}
                  /\ SaveNotificationIdMap(MapSet(existingMap, tNote.id, notificationId))
                  /\ nextHandle' = notificationId
  /\ tSettings' = settings
  /\ UNCHANGED <<tNote, tNow, procs>>
  /\ UNCHANGED <<clock, notes, notesBlob, notesWrites, loadBuf, recQueue, nOps>>
  /\ UNCHANGED <<queryVars, settingsVars, serverVars, transcribeVars, ClientVars>>

NextSchedule == ScheduleNoteReminder

\* calls of scheduleNoteReminder, one after the other, for a note of any
\* category and due date at one of the sampled instants
SpecSchedule == InitTrigger /\ [][NextSchedule]_vars

(* ------------- custom sections (client/hooks/useCustomSections.tsx) --- *)
\* saveSections(updated): the setItem call is issued; it lands later
SaveSections(updated) == sectionsWrites' = Append(sectionsWrites, JArr(updated))

\* the CustomSection addSection builds at Date.now() = new Date() = now
NewSection(name, icon, keywords, now) ==
  [id |-> NumberToString(now), name |-> name, icon |-> icon, keywords |-> keywords,
   createdAt |-> ToISOString(now)]

\* {...obj, ...updates}
Merge(obj, updates) ==
  [f \in DOMAIN obj \cup DOMAIN updates |-> IF f \in DOMAIN updates THEN updates[f] ELSE obj[f]]

\* prev.filter(section => section.id !== id)
WithoutSection(prev, id) == SelectSeq(prev, LAMBDA sec : sec.id # id)

\* an update that adds the section when no section has the id
UpdatedSections_OrAdd(prev, id, updates) ==
  IF id \in IdsOf(prev)
  THEN [i \in 1..Len(prev) |-> IF prev[i].id = id THEN Merge(prev[i], updates) ELSE prev[i]]
  ELSE Append(prev, Merge([id |-> id], updates))

\* prev.map(section => section.id === id ? {...section, ...updates} : section)
UpdatedSections(prev, id, updates) ==
  [i \in 1..Len(prev) |-> IF prev[i].id = id THEN Merge(prev[i], updates) ELSE prev[i]]

\* what an operation of the sections store leaves alone
OutsideSections ==
  <<clock, notes, notesBlob, notesWrites, loadBuf, recQueue, queryVars, settingsVars,
    triggerVars, reminderVars, serverVars, transcribeVars, errVars, feed>>

\* setSections(prev => updated) with saveSections(updated) in the updater
StoreSections(updated, op) ==
  /\ nOps < MaxOps
  /\ nOps' = nOps + 1
  /\ sections' = updated
  /\ SaveSections(updated)
  /\ hist' = op
  /\ UNCHANGED sectionsBlob
  /\ UNCHANGED OutsideSections

\* the sections store sets its collection to updated and saves it, called
\* from anywhere but the deletion of the settings screen
SetSections(updated, op) ==
  /\ StoreSections(updated, op)
  /\ UNCHANGED sweep

\* addSection(name, icon, keywords)
AddSection(name, icon, keywords) ==
  LET newSection == NewSection(name, icon, keywords, clock)
  IN SetSections(Append(sections, newSection),
                 [op |-> "addSection", id |-> newSection.id])

\* the changes the section editor makes
SectionUpdates == {[name |-> JStr("Home")], [icon |-> JStr("star"), keywords |-> JArr(<<>>)]}

\* deleteSection(id), for a section of the collection or an id that is not in it
DeleteSection ==
  /\ \E id \in IdsOf(sections) \cup {UnknownId} :
       SetSections(WithoutSection(sections, id),
                   [op |-> "deleteSection", id |-> id])
  /\ UNCHANGED voiceVars

\* updateSection(id, updates), likewise
UpdateSection ==
  /\ \E id \in IdsOf(sections) \cup {UnknownId}, updates \in SectionUpdates :
       SetSections(UpdatedSections(sections, id, updates),
                   [op |-> "updateSection", id |-> id])
  /\ UNCHANGED voiceVars

\* AsyncStorage completes the oldest setItem of saveSections
SectionsWriteLands ==
  /\ sectionsWrites # <<>>
  /\ sectionsBlob' = Head(sectionsWrites)
  /\ sectionsWrites' = Tail(sectionsWrites)
  /\ UNCHANGED <<sections, nOps, hist, voiceVars, sweep>>
  /\ UNCHANGED OutsideSections

\* the oldest setItem of saveSections rejects: the catch of saveSections logs it
SectionsWriteFails ==
  /\ sectionsWrites # <<>>
  /\ saveErrors < MaxSaveErrors
  /\ saveErrors' = saveErrors + 1
  /\ sectionsWrites' = Tail(sectionsWrites)
  /\ UNCHANGED <<sections, sectionsBlob, rejections, voiceVars, screenVars>>
  /\ UNCHANGED <<storeVars, queryVars, settingsVars, triggerVars, reminderVars, serverVars,
                 transcribeVars>>

\* the oldest setItem of saveNotes rejects: the catch of saveNotes logs it
NotesWriteFails ==
  /\ notesWrites # <<>>
  /\ saveErrors < MaxSaveErrors
  /\ saveErrors' = saveErrors + 1
  /\ notesWrites' = Tail(notesWrites)
  /\ UNCHANGED <<clock, notes, notesBlob, loadBuf, recQueue, nOps, hist>>
  /\ UNCHANGED <<rejections, sectionVars, voiceVars, screenVars>>
  /\ UNCHANGED <<queryVars, settingsVars, triggerVars, reminderVars, serverVars, transcribeVars>>

\* a setItem of saveNotes completes before one issued earlier: saveNotes is
\* called without await, so nothing in the store orders two writes in flight
StorageWriteOvertakes ==
  /\ \E i \in 2..Len(notesWrites) :
       /\ notesBlob' = notesWrites[i]
       /\ notesWrites' = SubSeq(notesWrites, 1, i - 1) \o SubSeq(notesWrites, i + 1, Len(notesWrites))
  /\ UNCHANGED <<clock, notes, loadBuf, recQueue, nOps, hist>>
  /\ UNCHANGED <<OutsideStore, voiceVars>>

\* the query screen has a section created: addSection with the icon of the
\* result or "folder"
CreateSection ==
  /\ \E icon \in {JStr("folder"), JStr("star")} : AddSection(JStr("Gym"), icon, JArr(<<>>))
  /\ UNCHANGED voiceVars

\* the operations of the two stores as their callers run them within one
\* millisecond, and the storage completing or failing the writes
NextStores ==
  \/ RecordingResult
  \/ RecordingAddNote
  \/ ToggleComplete
  \/ DeleteNote
  \/ StorageWriteLands
  \/ StorageWriteOvertakes
  \/ NotesWriteFails
  \/ CreateSection
  \/ DeleteSection
  \/ UpdateSection
  \/ SectionsWriteLands
  \/ SectionsWriteFails

SpecStores == Init /\ [][NextStores]_vars

(* ------------- the record flow of MainFeedScreen ---------------------- *)
\* what a step of the record flow leaves alone besides the notes store
OutsideFeed ==
  <<queryVars, settingsVars, triggerVars, reminderVars, serverVars, transcribeVars,
    sectionVars, voiceVars, errVars, sweep>>

\* a step of the flow that does not touch the notes store
FeedOnly == UNCHANGED <<storeVars, OutsideFeed>>

\* handleMicPress: nothing while isProcessing; stopRecording() while
\* isRecording, startRecording() otherwise.  Both run up to their first await
MicPress ==
  /\ feed.presses < MaxPresses
  /\ feed' = IF feed.isProcessing
             THEN [feed EXCEPT !.presses = @ + 1]
             ELSE IF feed.isRecording
             THEN [feed EXCEPT !.presses = @ + 1, !.stopping = @ + 1]
             ELSE [feed EXCEPT !.presses = @ + 1, !.starting = @ + 1]
  /\ FeedOnly

\* startRecording after its awaits (permission, audio mode, record()):
\* setIsRecording(true), or the permission is refused or record() throws
StartRecordingEnds ==
  /\ feed.starting > 0
  /\ \E started \in BOOLEAN :
       feed' = IF started
               THEN [feed EXCEPT !.starting = @ - 1, !.isRecording = TRUE, !.recordings = @ + 1]
               ELSE [feed EXCEPT !.starting = @ - 1]
  /\ FeedOnly

\* stopRecording after await audioRecorder.stop(): setIsRecording(false),
\* setIsProcessing(true), and on to the 200 ms wait and transcribeAndProcess;
\* or stop() throws and the outer catch alerts and clears isProcessing
StopRecordingStops ==
  /\ feed.stopping > 0
  /\ \E stopped \in BOOLEAN :
       feed' = IF stopped
               THEN [feed EXCEPT !.stopping = @ - 1, !.processing = @ + 1,
                                 !.isRecording = FALSE, !.isProcessing = TRUE]
               ELSE [feed EXCEPT !.stopping = @ - 1, !.isProcessing = FALSE]
  /\ FeedOnly

\* stopRecording when transcribeAndProcess settles: addNote of the result and
\* setIsProcessing(false)
FeedTranscribeReturns ==
  /\ feed.processing > 0
  /\ \E d \in Drafts :
       /\ AddNote(d)
       /\ feed' = [feed EXCEPT !.processing = @ - 1, !.isProcessing = FALSE, !.added = @ + 1]
  /\ UNCHANGED <<notesBlob, loadBuf, recQueue>>
  /\ UNCHANGED OutsideFeed

\* stopRecording when transcribeAndProcess throws: the alert and
\* setIsProcessing(false)
FeedTranscribeFails ==
  /\ feed.processing > 0
  /\ feed' = [feed EXCEPT !.processing = @ - 1, !.isProcessing = FALSE]
  /\ FeedOnly

\* Tick with the record flow left alone is Tick; the storage landing the
\* writes likewise
NextFeed ==
  \/ Tick
  \/ MicPress
  \/ StartRecordingEnds
  \/ StopRecordingStops
  \/ FeedTranscribeReturns
  \/ FeedTranscribeFails
  \/ StorageWriteLands

SpecFeed == Init /\ [][NextFeed]_vars

(* ------------- deleting a section (SettingsScreen.tsx) ---------------- *)
\* note.tags?.includes(name)
HasTag(note, name) ==
  LET tags == Prop(note, "tags")
  IN tags # JUndef /\ \E i \in 1..Len(tags.a) : tags.a[i] = name.s

\* note.tags.filter(t => t !== name)
StripTag(note, name) == JArr(SelectSeq(note.tags.a, LAMBDA t : t # name.s))

\* updateNoteTags(id, tags): the note with the id gets the tags, every other
\* field and every other note stay, and the collection is saved
UpdateNoteTagsOf(id, tags) ==
  /\ nOps < MaxOps
  /\ nOps' = nOps + 1
  /\ LET updated == [i \in 1..Len(notes) |->
                       IF notes[i].id = id THEN Merge(notes[i], [tags |-> tags]) ELSE notes[i]]
     IN /\ notes' = updated
        /\ SaveNotes(updated)
        /\ hist' = [op |-> "tags", id |-> id]
  /\ UNCHANGED <<clock, notesBlob, loadBuf, recQueue>>

\* the notes of the loop from the first that carries the name on
FromTagged(queue, name) ==
  LET tagged == {i \in 1..Len(queue) : HasTag(queue[i], name)}
  IN IF tagged = {} THEN <<>>
     ELSE SubSeq(queue, CHOOSE i \in tagged : \A j \in tagged : i <= j, Len(queue))

\* what the deletion leaves alone besides the two stores
OutsideSweep ==
  <<queryVars, settingsVars, triggerVars, reminderVars, serverVars, transcribeVars,
    voiceVars, errVars, feed>>

\* onPress of "Delete" from where it stands to its next await: the loop skips
\* the notes without the name, strips it from the first note that has it and
\* awaits updateNoteTags; when no note is left it calls deleteSection (ops:
\* the calls made to the stores when it has)
SweepRun(section, queue, before) ==
  LET rest == FromTagged(queue, section.name)
  IN IF rest # <<>>
     THEN /\ UpdateNoteTagsOf(rest[1].id, StripTag(rest[1], section.name))
          /\ sweep' = [phase |-> "sweeping", section |-> section, queue |-> Tail(rest),
                       before |-> before]
          /\ UNCHANGED <<sectionVars, OutsideSweep>>
     ELSE /\ StoreSections(WithoutSection(sections, section.id),
                           [op |-> "deleteSection", id |-> section.id])
          /\ sweep' = [phase |-> "done", section |-> section, queue |-> <<>>,
                       before |-> before, ops |-> nOps + 1]
          /\ UNCHANGED voiceVars

\* handleDeleteSection(section) with "Delete" chosen in the alert: the loop
\* walks the notes of the render the callback was made in
SweepStart ==
  /\ sweep.phase # "sweeping"
  /\ \E i \in 1..Len(sections) :
       SweepRun(sections[i], notes, [notes |-> notes, sections |-> sections])

\* the loop goes on after await updateNoteTags
SweepNext ==
  /\ sweep.phase = "sweeping"
  /\ SweepRun(sweep.section, sweep.queue, sweep.before)

\* the tag lists notes carry: none, empty, and the names of sections
TagLists == {<<>>, <<"Work">>, <<"Gym">>, <<"Work", "Gym">>}

\* notes as a session finds them: a note made at Date.now() = now, without
\* tags or with tags given since
TaggedNotes(now) ==
  LET made == NewNote([rawText |-> JStr("old"), title |-> JStr("Old"), category |-> JStr("idea")],
                      now, now)
  IN {made} \cup {Merge(made, [tags |-> JArr(t)]) : t \in TagLists}

\* the sections a session finds: "Work" made at 0, and "Gym" made at 1
WorkSection == NewSection(JStr("Work"), JStr("folder"), JArr(<<>>), 0)
GymSection == NewSection(JStr("Gym"), JStr("folder"), JArr(<<>>), 1)

\* the settings screen of a session whose stores hold one or two notes, newest
\* first (two notes made in the same millisecond share their id), and one or
\* two sections, all of it persisted
InitSweep ==
  /\ clock = 1
  /\ notes \in {<<n>> : n \in TaggedNotes(0)}
                 \cup {<<n, m>> : n \in TaggedNotes(1) \cup TaggedNotes(0), m \in TaggedNotes(0)}
  /\ notesBlob = JsonStringify(notes)
  /\ notesWrites = <<>>
  /\ loadBuf = JUndef
  /\ recQueue = <<>>
  /\ nOps = 0
  /\ hist = NoHist
  /\ QueryIdle
  /\ InitSettings
  /\ TriggerIdle
  /\ InitReminders
  /\ ServerIdle
  /\ xFile = FALSE
  /\ xSections = <<>>
  /\ xText = JText(<<>>)
  /\ xReply = JUndef
  /\ xResp = JUndef
  /\ sections \in {<<WorkSection>>, <<WorkSection, GymSection>>}
  /\ sectionsBlob = JArr(sections)
  /\ sectionsWrites = <<>>
  /\ voice = NoVoice
  /\ vQueue = <<>>
  /\ saveErrors = 0
  /\ rejections = 0
  /\ feed = FeedIdle
  /\ sweep = NoSweep

\* the user at the settings screen between deletions
SweepQuiet == sweep.phase # "sweeping"

\* the deletion of sections from the settings screen, the creation of "Gym"
\* sections by voice, deleteSection on its own, and the storage
NextSweep ==
  \/ Tick
  \/ SweepStart
  \/ SweepNext
  \/ SweepQuiet /\ CreateSection
  \/ SweepQuiet /\ DeleteSection
  \/ StorageWriteLands
  \/ SectionsWriteLands

SpecSweep == InitSweep /\ [][NextSweep]_vars

(* ------- the voice interactions (RecordingModal, QueryModal, lib/api) -- *)
\* the notes of a reply the recording screen may be answered with: one of the
\* enumeration tagged with the supplied section, one of a category outside it
VoiceReplyDrafts ==
  {d \in ReplyDrafts : \/ d.category = JStr("today") /\ d.tags = JArr(<<"Work">>)
                       \/ d.category = JStr("work") /\ d.tags = JArr(<<>>)}

\* what /api/transcribe may answer the recording screen: a list of one or two
\* notes, a notes value that is no list, and the 500 of its catch
ServedTranscribe ==
  {TranscribeResponse(<<"b", "u", "y">>, [t |-> "json", v |-> JObj([notes |-> n])]) :
     n \in {JArr(<<d>>) : d \in VoiceReplyDrafts} \cup {JArr(<<d, d>>) : d \in VoiceReplyDrafts}
           \cup {JStr("none")}}
    \cup {TranscribeResponse(<<"b", "u", "y">>, [t |-> "text"])}

\* the reply objects of the understanding service to a spoken command on the
\* notes sent: each action on all of them or none, a section to create
\* without its name, with its name only, and with name, icon and keywords
VoiceQueryReplies(sent) ==
  LET allIds == [i \in 1..Len(sent) |-> JStr(sent[i].id)]
      idLists == {JArr(<<>>), JArr(allIds)}
  IN {[t |-> "text"]}
       \cup {[t |-> "json", v |-> JObj([matchedNoteIds |-> m, action |-> a])] :
               m \in idLists, a \in {JNull, JStr("complete"), JStr("delete"), JStr("archive")}}
       \cup {[t |-> "json",
              v |-> JObj([f \in {"matchedNoteIds", "action"} \cup dom |->
                            CASE f = "matchedNoteIds" -> m
                              [] f = "action" -> JStr("create_section")
                              [] f = "sectionName" -> JStr("Gym")
                              [] f = "sectionIcon" -> JStr("star")
                              [] OTHER -> JArr(<<"run">>)])] :
               m \in idLists,
               dom \in {{"sectionIcon", "sectionKeywords"}, {"sectionName"},
                        {"sectionName", "sectionIcon", "sectionKeywords"}}}

\* what /api/query may answer the query screen that sent these notes
ServedQuery(sent) == {QueryResponse(sent, c) : c \in VoiceQueryReplies(sent)}

\* JSON.parse(JSON.stringify(notes)): the notes as the server reads them
SentNotes(coll) == [i \in 1..Len(coll) |-> JsonRoundTrip(coll[i])]

\* how a fetch can end: it rejects (no network), it is aborted by the timer of
\* queryNotes, or it resolves with a response whose body arrives whole or cut
CallOutcomes(served, withTimer) ==
  {[fetch |-> "rejected"]}
    \cup (IF withTimer THEN {[fetch |-> "aborted"]} ELSE {})
    \cup {[fetch |-> "resolved", resp |-> r, cut |-> FALSE] : r \in served}
    \cup {[fetch |-> "resolved", resp |-> r, cut |-> TRUE] : r \in {q \in served : q.status = 200}}

\* a client that hands over the body of a response whose stream was cut
CallResult_Partial(outcome) ==
  IF outcome.fetch # "resolved" THEN Thrown
  ELSE IF outcome.resp.status # 200 THEN Thrown
  ELSE outcome.resp

\* transcribeAndProcess / queryNotes from the end of the fetch: a rejected or
\* aborted fetch throws, a response that is not ok throws, response.json()
\* throws on a body that is cut
CallResult(outcome) ==
  IF outcome.fetch # "resolved" THEN Thrown
  ELSE IF outcome.resp.status # 200 THEN Thrown
  ELSE IF outcome.cut THEN Thrown
  ELSE outcome.resp

\* RecordingModal: result.notes.map(...) throws when notes is no list, and the
\* catch ends the interaction
RecordingFails(result) == result = Thrown \/ result.notes.k # "array"

\* RecordingModal: the notes the for loop will add
NotesToAdd(result) == IF RecordingFails(result) THEN <<>> ELSE result.notes.a

\* QueryModal: the section the first branch of the dispatch adds with every
\* name the result carries
SectionToCreate_AnyName(result) ==
  IF result # Thrown /\ result.action = JStr("create_section")
  THEN <<[name |-> result.sectionName,
          icon |-> OrElse(result.sectionIcon, JStr("folder")),
          keywords |-> OrElse(result.sectionKeywords, JArr(<<>>))]>>
  ELSE <<>>

\* QueryModal: if (result.action === "create_section" && result.sectionName)
\* addSection(sectionName, sectionIcon || "folder", sectionKeywords || [])
SectionToCreate(result) ==
  IF result # Thrown /\ result.action = JStr("create_section") /\ Truthy(result.sectionName)
  THEN <<[name |-> result.sectionName,
          icon |-> OrElse(result.sectionIcon, JStr("folder")),
          keywords |-> OrElse(result.sectionKeywords, JArr(<<>>))]>>
  ELSE <<>>

\* QueryModal: else if (result.action && result.matchedNotes &&
\* result.matchedNotes.length > 0) the loop walks result.matchedNotes
NotesToActOn(result) ==
  IF result # Thrown /\ SectionToCreate(result) = <<>> /\ Truthy(result.action)
  THEN result.matchedNotes
  ELSE <<>>

\* what AsyncStorage holds under a key once the writes in flight have landed
Settled(blob, writes) == IF writes = <<>> THEN blob ELSE writes[Len(writes)]

\* the collections, in memory and as stored, when an interaction starts
Snapshot ==
  [notes |-> notes, sections |-> sections,
   notesStored |-> Settled(notesBlob, notesWrites),
   sectionsStored |-> Settled(sectionsBlob, sectionsWrites)]

VoiceBusy == voice.phase \in {"calling", "applying"}

\* what a step of a voice interaction leaves alone besides the stores
OutsideVoice ==
  <<queryVars, settingsVars, triggerVars, serverVars, transcribeVars, errVars, screenVars>>

\* stopRecording of either screen up to its await of the call to the server
StopRecording ==
  /\ ~VoiceBusy
  /\ \E kind \in {"record", "query"} :
       voice' = [kind |-> kind, phase |-> "calling", before |-> Snapshot]
  /\ UNCHANGED vQueue
  /\ UNCHANGED <<storeVars, sectionVars, reminderVars, OutsideVoice>>

\* the interaction after the call: applying while work is queued
VoiceAfterCall(outcome, queued) ==
  [kind |-> voice.kind, phase |-> IF queued THEN "applying" ELSE "settled",
   before |-> voice.before, outcome |-> outcome]

\* RecordingModal.stopRecording when transcribeAndProcess settles: the notes
\* to add are queued, or the catch shows the error
TranscribeReturns ==
  /\ voice.phase = "calling"
  /\ voice.kind = "record"
  /\ \E outcome \in CallOutcomes(ServedTranscribe, FALSE) :
       LET result == CallResult(outcome)
           toAdd == NotesToAdd(result)
       IN /\ nOps + Len(toAdd) <= MaxOps
          /\ recQueue' = toAdd
          /\ voice' = VoiceAfterCall(outcome, toAdd # <<>>)
  /\ UNCHANGED vQueue
  /\ UNCHANGED <<clock, notes, notesBlob, notesWrites, loadBuf, nOps, hist>>
  /\ UNCHANGED <<sectionVars, reminderVars, OutsideVoice>>

\* one round of "for (const note of result.notes) await addNote({...})"
RecordingAddNext ==
  /\ voice.phase = "applying"
  /\ voice.kind = "record"
  /\ AddNote(Head(recQueue))
  /\ recQueue' = Tail(recQueue)
  /\ voice' = [voice EXCEPT !.phase = IF Tail(recQueue) = <<>> THEN "settled" ELSE "applying"]
  /\ UNCHANGED vQueue
  /\ UNCHANGED <<notesBlob, loadBuf>>
  /\ UNCHANGED <<sectionVars, reminderVars, OutsideVoice>>

\* QueryModal.stopRecording when queryNotes settles: the catch shows the
\* error, or the dispatch adds the section (addSection runs up to its end
\* before the await returns) or queues the matched notes
QueryReturns ==
  /\ voice.phase = "calling"
  /\ voice.kind = "query"
  /\ \E outcome \in CallOutcomes(ServedQuery(SentNotes(voice.before.notes)), TRUE) :
       LET result == CallResult(outcome)
           toCreate == SectionToCreate(result)
           toActOn == NotesToActOn(result)
       IN /\ nOps + Len(toCreate) + Len(toActOn) <= MaxOps
          /\ vQueue' = toActOn
          /\ voice' = VoiceAfterCall(outcome, toActOn # <<>>)
          /\ IF toCreate # <<>>
             THEN AddSection(toCreate[1].name, toCreate[1].icon, toCreate[1].keywords)
             ELSE UNCHANGED <<storeVars, sectionVars, reminderVars, OutsideVoice>>

\* archiveNote(id): the note gets its archivedAt and the collection is saved
ArchiveNoteOf(id) ==
  /\ nOps < MaxOps
  /\ nOps' = nOps + 1
  /\ LET updated == [i \in 1..Len(notes) |->
                       IF notes[i].id = id
                       THEN Merge(notes[i], [archivedAt |-> ToISOString(clock)])
                       ELSE notes[i]]
     IN /\ notes' = updated
        /\ SaveNotes(updated)
        /\ hist' = [op |-> "archive", id |-> id]
  /\ UNCHANGED <<clock, notesBlob, loadBuf, recQueue>>

\* cancelNoteReminder(id) run to its end: the reminder of the note, when the
\* map has one, is cancelled and leaves the map
CancelNoteReminderOf(id) ==
  LET map == GetNotificationIdMap
  IN /\ IF id \in DOMAIN map
        THEN /\ scheduled' = CancelScheduledNotification(map[id])
             /\ SaveNotificationIdMap(MapDelete(map, id))
        ELSE UNCHANGED <<notifBlob, scheduled>>
     /\ UNCHANGED <<nextHandle, procs>>

\* one round of "for (const note of result.matchedNotes)": the action on the
\* note, when its condition holds
QueryActNext ==
  /\ voice.phase = "applying"
  /\ voice.kind = "query"
  /\ LET note == Head(vQueue)
         action == CallResult(voice.outcome).action
     IN CASE action = JStr("complete") /\ ~note.completed -> ToggleCompleteOf(note.id)
          [] action = JStr("delete") -> DeleteNoteOf(note.id)
          [] action = JStr("archive") /\ ~Truthy(Prop(note, "archivedAt")) ->
               /\ ArchiveNoteOf(note.id)
               /\ CancelNoteReminderOf(note.id)
               /\ UNCHANGED <<sectionVars, OutsideVoice>>
          [] OTHER -> UNCHANGED <<storeVars, OutsideStore>>
  /\ vQueue' = Tail(vQueue)
  /\ voice' = [voice EXCEPT !.phase = IF Tail(vQueue) = <<>> THEN "settled" ELSE "applying"]

\* the steps of the voice interactions, one after the other (the writes they
\* issue stay in notesWrites and sectionsWrites)
NextVoice ==
  \/ Tick
  \/ StopRecording
  \/ TranscribeReturns
  \/ RecordingAddNext
  \/ QueryReturns
  \/ QueryActNext

SpecVoice == Init /\ [][NextVoice]_vars

\* the voice interactions with the user at the feed meanwhile: the query
\* screen can be closed while its call is in flight (handleClose), and the
\* feed behind it toggles notes
NextVoiceFeed ==
  \/ NextVoice
  \/ ToggleComplete

SpecVoiceFeed == Init /\ [][NextVoiceFeed]_vars

(* ------------------------------ claims -------------------------------- *)
\* C1: two toggleComplete(id) calls in succession leave the collection as it
\* was before the first, so the note has its original completed value.
C1_ToggleTwiceRestores ==
  (hist.op = "toggle" /\ hist.n = 2) => notes = hist.before

\* C1 witness: a note of the collection has been toggled twice in succession
C1_Witness ==
  /\ hist.op = "toggle"
  /\ hist.n = 2
  /\ \E i \in 1..Len(notes) : notes[i].id = hist.id

\* the fields of a draft that C2 says survive addNote and a reload
DraftFields == {"rawText", "title", "category", "dueDate", "entities", "tags"}

\* C2: after addNote(draft), once its write has landed and the store has been
\* reloaded from the blob, the collection holds a note with the id addNote
\* assigned whose rawText, title, category, dueDate, entities and tags are
\* the draft's.
C2_AddNoteRoundTrip ==
  (hist.op = "add" /\ hist.stage = "reloaded") =>
    \E i \in 1..Len(notes) :
      /\ notes[i].id = hist.id
      /\ \A f \in DraftFields : Prop(notes[i], f) = Prop(hist.draft, f)

\* C4: no two notes of the collection share an id.
C4_UniqueNoteIds ==
  \A i, j \in 1..Len(notes) : i # j => notes[i].id # notes[j].id

\* the string ids of a reply's matchedNoteIds
ReplyIdSet(ids) == {ids[i].s : i \in {j \in 1..Len(ids) : ids[j].k = "string"}}

\* how often a note occurs in a list
Count(list, n) == Cardinality({i \in 1..Len(list) : list[i] = n})

\* the reply is a JSON object whose matchedNoteIds is a list
ReplyHasIdList ==
  /\ qReply.t = "json"
  /\ qReply.v.k = "object"
  /\ Member(qReply.v, "matchedNoteIds").k = "array"

\* the handler has answered a request that carried a file, with a client
QueryProcessed == qResp # JUndef /\ qFile /\ openai

\* C3: when the reply carries a matchedNoteIds list, the handler answers 200
\* and matchedNotes holds every note of the caller's list whose id is in the
\* list, as often as the caller's list holds it, and nothing else.
C3_MatchedNotesExact ==
  (QueryProcessed /\ ReplyHasIdList) =>
    /\ qResp.status = 200
    /\ LET wanted == ReplyIdSet(Member(qReply.v, "matchedNoteIds").a)
           got == qResp.matchedNotes
       IN /\ \A i \in 1..Len(got) : got[i].id \in wanted
          /\ \A n \in QueryNotePool :
               Count(got, n) = IF n.id \in wanted THEN Count(qNotes, n) ELSE 0

\* C3 witness: the list names a note of the caller twice and an id of no note,
\* the caller holds a note that is not named, and the handler has answered
C3_Witness ==
  /\ QueryProcessed
  /\ ReplyHasIdList
  /\ LET ids == Member(qReply.v, "matchedNoteIds").a
     IN /\ \E i, j \in 1..Len(ids) : i # j /\ ids[i] = ids[j] /\ ids[i].k = "string"
                                      /\ \E x \in 1..Len(qNotes) : qNotes[x].id = ids[i].s
        /\ \E x \in 1..Len(qNotes) : qNotes[x].id \notin ReplyIdSet(ids)
  /\ Len(qResp.matchedNotes) = 1

\* C10: whatever the reply, the handler answers with a result whose response
\* is a non-empty string (the fallback when none was supplied), matchedNotes
\* = [] when no ids were supplied and action = null when none was supplied.
C10_QueryNeverFails ==
  QueryProcessed =>
    /\ qResp.status = 200
    /\ qResp.response.k = "string" /\ qResp.response.s # ""
    /\ (qReply.t # "json" \/ ~Truthy(Member(qReply.v, "response")))
         => qResp.response = Fallback
    /\ (qReply.t # "json" \/ ~Truthy(Member(qReply.v, "matchedNoteIds")))
         => qResp.matchedNotes = <<>>
    /\ (qReply.t # "json" \/ ~Truthy(Member(qReply.v, "action")))
         => qResp.action = JNull

\* C7: for a note with a due date the trigger is the due date minus the
\* configured lead minutes when that is later than now, and there is no
\* trigger otherwise, whatever the category.
C7_DueDateTrigger ==
  (tResult # JUndef /\ Truthy(Prop(tNote, "dueDate"))) =>
    LET trigger == DateGetTime(tNote.dueDate) - tSettings.reminderLeadMinutes * MsPerMinute
    IN tResult = IF trigger > tNow THEN JDate(trigger) ELSE JNull

\* C8: for a "today" note without a due date the trigger is today at the
\* configured today-hour while that is still ahead, and now + 1 hour after it.
C8_TodayTrigger ==
  (tResult # JUndef /\ ~Truthy(Prop(tNote, "dueDate")) /\ tNote.category = JStr("today")) =>
    LET atHour == SetHours(tNow, tSettings.todayReminderHour)
    IN tResult = IF tNow < atHour THEN JDate(atHour) ELSE JDate(tNow + MsPerHour)

\* C9: the trigger of a "tomorrow" note is tomorrow at the configured
\* tomorrow-hour, and C7 and C8 hold with the configured lead minutes and
\* today-hour: the computation reads the settings current at the call.
C9_TriggerUsesSettings ==
  /\ (tResult # JUndef /\ ~Truthy(Prop(tNote, "dueDate")) /\ tNote.category = JStr("tomorrow"))
       => tResult = JDate(SetHours(NextDay(tNow), tSettings.tomorrowReminderHour))
  /\ C7_DueDateTrigger
  /\ C8_TodayTrigger

\* C5: every note id has at most one outstanding scheduled notification, at
\* every point of every interleaving of scheduleNoteReminder and
\* cancelNoteReminder calls
C5_OneReminderPerNote ==
  \A n1 \in scheduled, n2 \in scheduled :
    n1.noteId = n2.noteId => n1.handle = n2.handle

\* note id has a reminder: an entry in the persisted map or a notification
\* still scheduled
HasReminder(id) ==
  \/ id \in DOMAIN GetNotificationIdMap
  \/ \E n \in scheduled : n.noteId = id

\* no scheduleNoteReminder or cancelNoteReminder call is in progress
NoCallInProgress == \A p \in Callers : procs[p].pc = "idle"

\* C6: once a note has been completed or deleted and no reminder call is in
\* progress, the id -> handle map holds no entry for it and no notification
\* for it remains scheduled
C6_RemovalCancelsReminder ==
  /\ (/\ NoCallInProgress
      /\ hist.op = "delete"
      /\ hist.id \notin IdsOf(notes))
       => ~HasReminder(hist.id)
  /\ (/\ NoCallInProgress
      /\ hist.op = "toggle"
      /\ \E i \in 1..Len(notes) : notes[i].id = hist.id /\ notes[i].completed)
       => ~HasReminder(hist.id)

\* the handler has answered a request that carried a file, with a client and
\* a transcript
TranscribeProcessed == xResp # JUndef /\ xFile /\ openai /\ xText # Thrown

\* the reply is a JSON object whose notes is a list
ReplyHasNotesArray ==
  /\ xReply.t = "json"
  /\ xReply.v.k = "object"
  /\ Member(xReply.v, "notes").k = "array"

\* C11: when the reply holds no notes list, /transcribe answers with exactly
\* one draft: the whole transcript, its first 50 characters as the title,
\* category "other", no tags and no due date
C11_FallbackDraft ==
  (TranscribeProcessed /\ ~ReplyHasNotesArray) =>
    /\ xResp.status = 200
    /\ xResp.notes.k = "array"
    /\ Len(xResp.notes.a) = 1
    /\ LET d == xResp.notes.a[1]
       IN /\ d.rawText = xText
          /\ d.title = JText(Slice(xText.cs, TitleLimit))
          /\ d.category = JStr("other")
          /\ d.tags = JArr(<<>>)
          /\ d.dueDate = JNull

\* C13: a request without an audio payload is answered 400, by /transcribe
\* and by /query, whether or not the server can create its AI client
C13_NoAudioRejected ==
  /\ (xResp # JUndef /\ ~xFile) => xResp.status = 400
  /\ (qResp # JUndef /\ ~qFile) => qResp.status = 400

\* the call of the interaction failed, timed out or returned a body that was cut
CallFailed ==
  /\ voice.phase \in {"applying", "settled"}
  /\ \/ voice.outcome.fetch # "resolved"
     \/ voice.outcome.resp.status # 200
     \/ voice.outcome.cut

\* C12: after a transcribe or query call that failed, timed out or returned an
\* incomplete result, the notes and the sections, in memory and as stored, are
\* what they were when the voice interaction started
C12_FailedCallLeavesStores ==
  CallFailed =>
    /\ notes = voice.before.notes
    /\ sections = voice.before.sections
    /\ Settled(notesBlob, notesWrites) = voice.before.notesStored
    /\ Settled(sectionsBlob, sectionsWrites) = voice.before.sectionsStored

\* a query whose response was cut while it carried a delete of the notes held
C12_Witness ==
  /\ CallFailed
  /\ voice.kind = "query"
  /\ voice.outcome.fetch = "resolved"
  /\ voice.outcome.cut
  /\ voice.outcome.resp.action = JStr("delete")
  /\ voice.outcome.resp.matchedNotes # <<>>
  /\ voice.before.notes # <<>>

\* the query call of the interaction returned a result asking for a section
CreateSectionResult ==
  /\ voice.kind = "query"
  /\ voice.phase \in {"applying", "settled"}
  /\ ~CallFailed
  /\ voice.outcome.resp.action = JStr("create_section")

\* C20: a query result with action create_section and a sectionName adds
\* exactly one section, behind the others, with that name, with sectionIcon or
\* "folder" as its icon and sectionKeywords or the empty list as its keywords,
\* and changes no note although notes matched; without a sectionName the
\* sections stay as they were
C20_CreateSectionApplied ==
  CreateSectionResult =>
    LET result == voice.outcome.resp
        was == voice.before.sections
    IN IF result.sectionName \in {JNull, JUndef}
       THEN sections = was
       ELSE /\ Len(sections) = Len(was) + 1
            /\ SubSeq(sections, 1, Len(was)) = was
            /\ sections[Len(sections)].name = result.sectionName
            /\ sections[Len(sections)].icon =
                 (IF result.sectionIcon \in {JNull, JUndef} THEN JStr("folder")
                  ELSE result.sectionIcon)
            /\ sections[Len(sections)].keywords =
                 (IF result.sectionKeywords \in {JNull, JUndef} THEN JArr(<<>>)
                  ELSE result.sectionKeywords)
            /\ notes = voice.before.notes

\* a section was created from a result with a name, no icon, and matched notes
C20_Witness ==
  /\ CreateSectionResult
  /\ voice.phase = "settled"
  /\ voice.outcome.resp.sectionName = JStr("Gym")
  /\ voice.outcome.resp.sectionIcon = JNull
  /\ voice.outcome.resp.matchedNotes # <<>>
  /\ sections # <<>>

\* C18: every note of the store has a category that is one of today, tomorrow,
\* idea, shopping and other, whatever category the drafts came with
C18_CategoryOfEnumeration ==
  \A i \in 1..Len(notes) : notes[i].category \in {JStr(c) : c \in Categories}

\* the tags of the drafts a response carries
ReturnedTags(resp) ==
  IF resp.status # 200 \/ resp.notes.k # "array" THEN {}
  ELSE UNION { IF Prop(d, "tags").k = "array"
               THEN {Prop(d, "tags").a[j] : j \in 1..Len(Prop(d, "tags").a)}
               ELSE {} : d \in {resp.notes.a[i] : i \in 1..Len(resp.notes.a)} }

\* C19: every tag of every draft /api/transcribe returns is the name of a
\* section supplied with the request
C19_TagsNameSuppliedSections ==
  TranscribeProcessed => ReturnedTags(xResp) \subseteq SectionNames(xSections)

\* C15: when addNote has returned, the persisted notes blob contains the new note
C15_AddNoteReturnsPersisted ==
  (hist.op = "add" /\ hist.stage = "added") =>
    /\ notesBlob # JNull
    /\ \E i \in 1..Len(notesBlob.a) : notesBlob.a[i].id = hist.id

\* C16: in every reachable state the notes in memory are ordered by createdAt,
\* most recent first
C16_NotesNewestFirst ==
  \A i \in 1..Len(notes), j \in 1..Len(notes) :
    i < j => DateGetTime(notes[i].createdAt) >= DateGetTime(notes[j].createdAt)

\* notes created at different times, after adds, writes and a reload
C16_Witness ==
  /\ Len(notes) >= 2
  /\ notes[1].createdAt # notes[2].createdAt
  /\ hist.op = "add"
  /\ hist.stage = "reloaded"

\* C14: a write to the blob store that fails during a store mutation is
\* surfaced to the caller of the mutation: its promise rejects
C14_WriteFailureSurfaced == saveErrors > 0 => rejections > 0

\* the operations that take the id of a note or of a section
IdOps == {"toggle", "delete", "deleteSection", "updateSection"}

\* C17: toggleComplete, deleteNote, deleteSection and updateSection called
\* with an id that is not in the collection raise no error and leave the
\* collections in memory as they were
C17_UnknownIdNoOp ==
  [][(nOps' = nOps + 1 /\ hist'.op \in IdOps /\ hist'.id = UnknownId) =>
       (notes' = notes /\ sections' = sections /\ rejections' = rejections)]_vars

\* updateSection was called with an unknown id on a store that holds a
\* section and a note
C17_Witness ==
  /\ hist.op = "updateSection"
  /\ hist.id = UnknownId
  /\ sections # <<>>
  /\ notes # <<>>

\* the persisted map names the outstanding notification n under its note
InMap(n) ==
  LET map == GetNotificationIdMap
  IN n.noteId \in DOMAIN map /\ map[n.noteId] = n.handle

\* the outstanding notifications are reminders of different notes
OnePerNote == \A n1 \in scheduled, n2 \in scheduled : n1.noteId = n2.noteId => n1 = n2

\* C25: when the overlapping scheduleNoteReminder / cancelNoteReminder calls
\* for different notes have finished, every reminder that was scheduled and
\* not cancelled has its handle in the persisted map
C25_NoLostMapUpdate ==
  (NoCallInProgress /\ OnePerNote) => \A n \in scheduled : InMap(n)

\* C26: between calls, every handle the persisted map holds is the handle of
\* a notification that has not been cancelled
C26_MapHandlesOutstanding ==
  NoCallInProgress =>
    \A id \in DOMAIN GetNotificationIdMap :
      \E n \in scheduled : n.handle = GetNotificationIdMap[id]

\* the trigger is none or an instant strictly later than now
LaterOrNone(trigger, now) == trigger = JNull \/ trigger.t > now

C23_MutationsFlushed ==
  (notesWrites = <<>> /\ saveErrors = 0 /\ notesBlob # JNull) =>
    notesBlob = JsonStringify(notes)

\* the note persisted before the session is still in the persisted blob
StoredNoteKept == StoredNote.id \in IdsOf(notesBlob.a)

\* the note added last is in the collection in memory
AddedNoteKept == hist.op = "add" => hist.id \in IdsOf(notes)

\* C24: with loads overlapping the adds and nothing deleted, the note that was
\* persisted before the session stays in the persisted blob and an added note
\* stays in the collection in memory
C24_LoadLosesNothing == StoredNoteKept /\ AddedNoteKept

\* C30: when /api/transcribe or /api/query has answered a request that came
\* with an audio upload and got its client, the uploaded file is no longer in
\* the uploads directory
C30_UploadRemoved ==
  /\ (xResp # JUndef /\ xFile /\ openai) => "transcribe" \notin uploads
  /\ (qResp # JUndef /\ qFile /\ openai) => "query" \notin uploads

\* a stopRecording run of the main feed is in flight: awaiting stop(), or
\* waiting, transcribing and adding
PipelineInFlight == feed.stopping + feed.processing > 0

\* C22: a mic press of the main feed that arrives while a recording is being
\* stopped or processed starts neither a recording nor another stopRecording
\* run
C22_OnePipelineInFlight ==
  [][(PipelineInFlight /\ feed'.presses = feed.presses + 1)
       => (feed'.starting = feed.starting /\ feed'.stopping = feed.stopping)]_vars

\* the query call of the interaction returned a result asking to complete the
\* notes it matched, and the dispatch has walked them all
CompleteApplied ==
  /\ voice.kind = "query"
  /\ voice.phase = "settled"
  /\ ~CallFailed
  /\ voice.outcome.resp.action = JStr("complete")

\* C28: once a "complete" voice action has been applied, every matched note
\* that is still in the collection is completed
C28_CompleteNeverReopens ==
  CompleteApplied =>
    \A k \in 1..Len(voice.outcome.resp.matchedNotes) : \A i \in 1..Len(notes) :
      notes[i].id = voice.outcome.resp.matchedNotes[k].id => notes[i].completed

\* note.tags as a list, empty when the note has none
TagsOf(note) == IF Prop(note, "tags") = JUndef THEN <<>> ELSE note.tags.a

\* the note is the one it was but for its tags, which are those it had
\* without the name
Stripped(now, was, name) ==
  /\ [f \in DOMAIN now \ {"tags"} |-> now[f]] = [f \in DOMAIN was \ {"tags"} |-> was[f]]
  /\ TagsOf(now) = SelectSeq(TagsOf(was), LAMBDA t : t # name.s)

\* the deletion is through and its deleteSection was the last call to a store
SweepThrough == sweep.phase = "done" /\ sweep.ops = nOps

C29_SurvivingNamesKept ==
  SweepThrough =>
    \A i \in 1..Len(notes) : \A k \in 1..Len(TagsOf(sweep.before.notes[i])) :
      LET t == TagsOf(sweep.before.notes[i])[k]
      IN JStr(t) \in SectionNames(sections) => \E j \in 1..Len(TagsOf(notes[i])) : TagsOf(notes[i])[j] = t

====
